---- MODULE Spec2Model ----
(***************************************************************************)
(* A state-machine model of express-resource (src/index.js).               *)
(*                                                                         *)
(* Strings are sequences of symbols.  The path separator "/", the          *)
(* parameter marker ":", "." and "?" are symbols of their own; a run of    *)
(* letters ("users", "format", "undefined") is one symbol.  A JavaScript   *)
(* value is a record [t, s]: t is its type tag and s its payload (the      *)
(* symbols of a string, the name of a function).                           *)
(*                                                                         *)
(* The object literal of map (src/index.js:216-221) is written with two    *)
(* stray commas, `{ httpVerb, , path: route , orig, , action }`, which is   *)
(* not JavaScript.  The source as it is written is rejected by the parser  *)
(* when the module is required: nothing of the file is evaluated and no    *)
(* operation of it can be called.  With the two commas removed the literal *)
(* is the record of its four fields and the module loads.  `mod.source`    *)
(* says which of the two texts is required, and every operation needs the  *)
(* module loaded.  What a mapped route does with a request (the format     *)
(* negotiation of src/index.js:224-236) is not part of the model.          *)
(***************************************************************************)
EXTENDS Integers, Sequences, FiniteSets, TLC

VARIABLES
    mod,        \* the module: the text required and whether it loaded
    heap,       \* the Resource objects created so far, by object number
    registry,   \* app.resources: name key -> object number (0: no entry)
    bindings,   \* the host router's route list: every app[verb](route, fn) call, in order
    params,     \* the host router's parameter hooks: every app.param(id, fn) call, in order
    mapCalls,   \* how many times Resource.prototype.map ran to its route registration
    defs,       \* every definition app.resource() completed, in order, and every
                \* installation of the module on the application after the first
    last,       \* the last call made on the public surface, and how it ended
    rq,         \* the request passing through a parameter hook (auto-loader)
    hk          \* the last request the host router dispatched, and what it started

vars == <<mod, heap, registry, bindings, params, mapCalls, defs, last, rq, hk>>

----------------------------------------------------------------------------
(* Bounds of the model                                                     *)

MaxResources == 2
MaxBindings == 6
\* Routes mapped directly: few enough for a resource holding them all to be nested
\* and nested again within MaxBindings.
MaxRoutes == MaxBindings \div 3
MaxInstalls == 1
MaxParams == 1
MaxCallbacks == 1
MaxMiddlewares == 2
MaxBaseLen == 6

----------------------------------------------------------------------------
(* JavaScript values                                                       *)

Str(x) == [t |-> "string", s |-> x]
Undefined == [t |-> "undefined", s |-> <<>>]
Null == [t |-> "null", s |-> <<>>]
Fn(f) == [t |-> "function", s |-> <<f>>]

Truthy(v) == v.t = "function" \/ (v.t = "string" /\ v.s # <<>>)

\* String conversion, as `+` with a string operand and template literals do it.
ToStr(v) ==
    CASE v.t = "string" -> v.s
      [] v.t = "undefined" -> <<"undefined">>
      [] v.t = "null" -> <<"null">>
      [] OTHER -> <<"function">> \o v.s

Plus(a, b) == Str(ToStr(a) \o ToStr(b))

SLASH == <<"/">>

toLowerCase(v) ==
    CASE v = "GET" -> "get"
      [] v = "POST" -> "post"
      [] v = "PUT" -> "put"
      [] v = "PATCH" -> "patch"
      [] v = "DELETE" -> "delete"
      [] OTHER -> v

----------------------------------------------------------------------------
(* src/index.js:22-31                                                      *)

orderedActions == <<"index", "new", "create", "show", "edit", "update", "patch", "destroy">>

\* en.singularize of the lingo package, on the names the model uses.
singularize(w) ==
    CASE w = "users" -> "user"
      [] w = "posts" -> "post"
      [] w = "comments" -> "comment"
      [] OTHER -> w

RECURSIVE LastSegment(_)
\* name.split('/').pop()
LastSegment(s) ==
    IF \E i \in 1..Len(s) : s[i] = "/"
    THEN LastSegment(Tail(s))
    ELSE s

\* src/index.js:165-169
defaultId(name) ==
    IF Truthy(name)
    THEN LET seg == LastSegment(name.s)
         IN IF seg = <<>> THEN <<>> ELSE <<singularize(seg[1])>>
    ELSE <<"id">>

\* src/index.js:73-76
trailingSlashIt(path) ==
    IF path = <<>> \/ path[Len(path)] # "/" THEN path \o SLASH ELSE path

\* src/index.js:78-84: the else branch computes trailingSlashIt( providedValue )
\* and returns nothing, so the call yields undefined.
figureOutBase(providedValue) ==
    IF ~Truthy(providedValue)
    THEN Str(SLASH)
    ELSE LET discarded == trailingSlashIt(providedValue.s)
         IN Undefined

FormatSuffix == <<".", ":", "format", "?">>

\* prepareRoute with the id-parameter prefix of a relative sub-path left out.
prepareRoute_NoIdPrefix(self, path) ==
    LET p == IF path # <<>> /\ path[1] = "/"
             THEN Tail(path)
             ELSE IF path # <<>> THEN path ELSE self.param
    IN ToStr(self.base)
       \o (IF Truthy(self.name) THEN self.name.s ELSE <<>>)
       \o (IF Truthy(self.name) /\ p # <<>> THEN SLASH ELSE <<>>)
       \o p
       \o FormatSuffix

\* src/index.js:171-184; path is a string here
prepareRoute(self, path) ==
    LET p == IF path # <<>> /\ path[1] = "/"
             THEN Tail(path)
             ELSE IF path # <<>>
                  THEN self.param \o SLASH \o path
                  ELSE self.param
    IN ToStr(self.base)
       \o (IF Truthy(self.name) THEN self.name.s ELSE <<>>)
       \o (IF Truthy(self.name) /\ p # <<>> THEN SLASH ELSE <<>>)
       \o p
       \o FormatSuffix

----------------------------------------------------------------------------
(* The route table: this.routes[httpVerb][route], with the insertion order  *)
(* of JavaScript property keys (for-in visits keys in that order).         *)

VerbIndex(routes, verb) ==
    IF \E i \in 1..Len(routes) : routes[i].verb = verb
    THEN CHOOSE i \in 1..Len(routes) : routes[i].verb = verb
    ELSE 0

KeyIndex(entries, key) ==
    IF \E j \in 1..Len(entries) : entries[j].path = key
    THEN CHOOSE j \in 1..Len(entries) : entries[j].path = key
    ELSE 0

\* (this.routes[httpVerb] = this.routes[httpVerb] || {})[route] = rec; src/index.js:216
PutRoute(routes, verb, key, rec) ==
    LET i == VerbIndex(routes, verb)
    IN IF i = 0
       THEN Append(routes, [verb |-> verb, entries |-> <<rec>>])
       ELSE LET j == KeyIndex(routes[i].entries, key)
            IN IF j = 0
               THEN [routes EXCEPT ![i].entries = Append(@, rec)]
               ELSE [routes EXCEPT ![i].entries[j] = rec]

\* delete routes[key]; src/index.js:265
DeleteRoute(entries, key) ==
    SelectSeq(entries, LAMBDA e : e.path # key)

\* Every route record of a table, in any order.
AllRoutes(routes) ==
    UNION {{routes[i].entries[j] : j \in 1..Len(routes[i].entries)} : i \in 1..Len(routes)}

----------------------------------------------------------------------------
(* Operations.  Each takes and returns a world w: the application's state  *)
(* together with `threw`, set when the call ends in an exception.          *)

World(h, b, p, m) == [heap |-> h, bindings |-> b, params |-> p, mapCalls |-> m, threw |-> FALSE]

Throw(w) == [w EXCEPT !.threw = TRUE]

\* A host router that replaces a binding of the same verb and path.
appRegister_Dedup(bs, verb, route, action) ==
    Append(SelectSeq(bs, LAMBDA b : ~(b.verb = verb /\ b.path = route)),
           [verb |-> verb, path |-> route, action |-> action])

\* this.app[httpVerb]( route, fn ): the host router keeps every binding; src/index.js:224
appRegister(bs, verb, route, action) ==
    Append(bs, [verb |-> verb, path |-> route, action |-> action])

RECURSIVE map(_, _, _, _, _)
RECURSIVE add(_, _, _)

\* A Resource passed as an argument
ResourceArg(c) == [t |-> "resource", s |-> <<>>, ref |-> c]

\* src/index.js:196-239.  r is the object number of `this`; httpVerb is a string
\* value or a Resource.
map(w, r, httpVerb, path, action) ==
    IF httpVerb.t = "resource"
    THEN add(w, r, httpVerb.ref)
    ELSE LET self == w.heap[r]
             shift == path.t \in {"function", "object"}
             act == IF shift THEN path ELSE action
             p == IF shift THEN <<>> ELSE path.s
             route == prepareRoute(self, p)
             verb == toLowerCase(httpVerb.s[1])
             rec == [httpVerb |-> verb, path |-> route, orig |-> path, action |-> act]
         IN [w EXCEPT !.heap[r].routes = PutRoute(@, verb, route, rec),
                      !.bindings = appRegister(@, verb, route, act),
                      !.mapCalls = @ + 1]

RECURSIVE ReMapKeys(_, _, _, _)
\* src/index.js:263-276: the inner for-in loop over the keys a verb's table had
\* when the loop began (keys added while it runs are not visited); an exception
\* ends the loop.
ReMapKeys(w, c, verb, keys) ==
    IF w.threw \/ keys = <<>>
    THEN w
    ELSE LET i == VerbIndex(w.heap[c].routes, verb)
             entries == w.heap[c].routes[i].entries
             j == KeyIndex(entries, Head(keys))
         IN IF j = 0
            THEN ReMapKeys(w, c, verb, Tail(keys))
            ELSE LET route == entries[j]
                     w1 == [w EXCEPT !.heap[c].routes[i].entries = DeleteRoute(@, Head(keys))]
                 IN ReMapKeys(map(w1, c, Str(<<route.httpVerb>>), route.orig, route.action),
                              c, verb, Tail(keys))

RECURSIVE ReMapVerbs(_, _, _)
\* src/index.js:261-277: the outer for-in loop over resource.routes
ReMapVerbs(w, c, i) ==
    IF w.threw \/ i > Len(w.heap[c].routes)
    THEN w
    ELSE LET v == w.heap[c].routes[i]
             keys == [j \in 1..Len(v.entries) |-> v.entries[j].path]
         IN ReMapVerbs(ReMapKeys(w, c, v.verb, keys), c, i + 1)

\* The relative base add computes; src/index.js:256-258
NestedBase(self) ==
    Plus(Plus(Plus(self.base,
                   IF Truthy(self.name) THEN Plus(self.name, Str(SLASH)) ELSE Str(<<>>)),
              Str(self.param)),
         Str(SLASH))

\* add that sets the relative base and leaves the stored routes as they are.
add_NoRemap(w, p, c) ==
    [w EXCEPT !.heap[c].base = NestedBase(w.heap[p]),
              !.heap[c].nested = TRUE]

\* src/index.js:250-280.  p is `this`, c the nested resource.
add(w, p, c) ==
    LET w1 == [w EXCEPT !.heap[c].base = NestedBase(w.heap[p]),
                        !.heap[c].nested = TRUE]
    IN ReMapVerbs(w1, c, 1)

\* src/index.js:132-156: the registration part of load (the hook itself is HookCall)
load(w, r, fn) ==
    [w EXCEPT !.heap[r].loadFunction = fn,
              !.params = Append(@, [id |-> w.heap[r].id, fn |-> fn])]

----------------------------------------------------------------------------
(* The configuration object (`actions`) of a resource definition:          *)
(*   handlers      the default action names that carry a handler           *)
(*   only          [given, list]: the `only` restriction                   *)
(*   base, id      JavaScript values                                       *)
(*   customActions [given, list]: the (verb, actionName) pairs             *)
(*   load          the auto-loader (a function value) or undefined         *)
(*   middlewares   [given, list]: the names of the middlewares             *)

\* The handler a configuration holds under a default action name.
Handler(actionName) ==
    CASE actionName = "index" -> Fn("fnA")
      [] actionName = "show" -> Fn("fnB")
      [] OTHER -> Fn(actionName)

\* src/index.js:282-302: the closure hookUpActionMethod returns, as a value: it
\* closes over the action and over the configuration, of which it reads the
\* middlewares.  What it does when the host router calls it is hookedUp.
hookUpActionMethod(action, resource) ==
    [t |-> "function", s |-> <<"hookedUp">> \o action.s, mws |-> resource.middlewares]

\* src/index.js:347-362: the verb methods are arrow functions, so their `this` is
\* the module scope's `this` (the module's initial exports object), not the
\* Resource; that object has no `map`, and `this.map( ... )` ends in a TypeError.
VerbMethod(w, r, httpVerb, path, action) ==
    Throw(w)

\* src/index.js:315-340: the verb method and the arguments of each case
DefaultCall(actionName) ==
    CASE actionName = "index" -> [verb |-> "get", path |-> Str(SLASH)]
      [] actionName = "new" -> [verb |-> "get", path |-> Str(<<"/", "new">>)]
      [] actionName = "create" -> [verb |-> "post", path |-> Str(SLASH)]
      [] actionName = "show" -> [verb |-> "get", path |-> Undefined]
      [] actionName = "edit" -> [verb |-> "get", path |-> Str(<<"edit">>)]
      [] actionName = "update" -> [verb |-> "put", path |-> Undefined]
      [] actionName = "patch" -> [verb |-> "patch", path |-> Undefined]
      [] OTHER -> [verb |-> "delete", path |-> Undefined]

\* src/index.js:312-341
mapDefaultAction(w, r, actionName, action, resource) ==
    LET hookedUpActionMethod == hookUpActionMethod(action, resource)
        call == DefaultCall(actionName)
    IN IF call.path = Undefined
       THEN VerbMethod(w, r, call.verb, hookedUpActionMethod, Undefined)
       ELSE VerbMethod(w, r, call.verb, call.path, hookedUpActionMethod)

\* The condition of src/index.js:100-106
Wired(actions, actionName) ==
    /\ actionName \in actions.handlers
    /\ (~actions.only.given \/ actionName \in actions.only.list)

RECURSIVE WireDefaults(_, _, _, _)
\* src/index.js:99-113: orderedActions.forEach; an exception ends the loop
WireDefaults(w, r, actions, i) ==
    IF w.threw \/ i > Len(orderedActions)
    THEN w
    ELSE WireDefaults(IF Wired(actions, orderedActions[i])
                      THEN mapDefaultAction(w, r, orderedActions[i],
                                            Handler(orderedActions[i]), actions)
                      ELSE w,
                      r, actions, i + 1)

RECURSIVE WireCustom(_, _, _, _)
\* src/index.js:115-118: actions.customActions.forEach
WireCustom(w, r, actions, list) ==
    IF w.threw \/ list = <<>>
    THEN w
    ELSE WireCustom(VerbMethod(w, r, Head(list)[1], Str(<<Head(list)[2]>>),
                               hookUpActionMethod(Fn(Head(list)[2]), actions)),
                    r, actions, Tail(list))

\* src/index.js:86-122, for a configuration that is present: the world with the
\* new object at the end of the heap, or with threw set.
Resource(w, name, actions) ==
    LET id == IF Truthy(actions.id) THEN actions.id.s ELSE defaultId(name)
        obj == [name |-> name,
                routes |-> <<>>,
                base |-> figureOutBase(actions.base),
                id |-> id,
                param |-> <<":">> \o id,
                loadFunction |-> Undefined,
                baseArg |-> actions.base,
                nested |-> FALSE]
        r == Len(w.heap) + 1
        w1 == [w EXCEPT !.heap = Append(@, obj)]
        w2 == WireDefaults(w1, r, actions, 1)
        w3 == IF w2.threw THEN w2
              ELSE IF ~actions.customActions.given THEN Throw(w2)
              ELSE WireCustom(w2, r, actions, actions.customActions.list)
    IN IF w3.threw THEN w3
       ELSE IF Truthy(actions.load) THEN load(w3, r, actions.load)
       ELSE w3

\* for (var key in opts) actions[key] = opts[key]; src/index.js:57
Merge(actions, opts) ==
    [k \in DOMAIN actions |-> IF k \in opts.keys THEN opts.vals[k] ELSE actions[k]]

\* The key a name has in app.resources (a null name becomes the key "null").
Key(name) == ToStr(name)

\* What a call returns: a Resource of the heap, or a new inert Resource (one
\* constructed without a configuration: it has no field at all).
Ref(r) == [kind |-> "resource", ref |-> r]
Inert == [kind |-> "inert", ref |-> 0]
\* app.resources is a plain object: under a name that Object.prototype has a
\* property for, this.resources[name] is that inherited (truthy) property
Inherited == [kind |-> "inherited", ref |-> 0]
ObjectPrototypeKeys == {<<"constructor">>}
NoRef == [kind |-> "none", ref |-> 0]

\* src/index.js:51-60.  `first` is the first argument (a name, or Null when the
\* configuration was passed first and the name was set to null); hasActions says
\* whether a configuration reached `actions`.  Yields the world, the registry and
\* the returned value.
resource(w, reg, first, hasActions, actions, opts) ==
    IF ~hasActions
    THEN [w |-> w, reg |-> reg,
          ret |-> IF reg[Key(first)] # 0 THEN Ref(reg[Key(first)])
                  ELSE IF Key(first) \in ObjectPrototypeKeys THEN Inherited
                  ELSE Inert]
    ELSE LET merged == Merge(actions, opts)
             w1 == Resource(w, first, merged)
         IN IF w1.threw
            THEN [w |-> w1, reg |-> reg, ret |-> NoRef]
            ELSE [w |-> w1,
                  reg |-> [reg EXCEPT ![Key(first)] = Len(w1.heap)],
                  ret |-> Ref(Len(w1.heap))]

----------------------------------------------------------------------------
(* Inputs                                                                  *)

Users == Str(<<"users">>)
Posts == Str(<<"posts">>)
Comments == Str(<<"comments">>)

\* The first argument of resource(): a name, or a configuration object, which
\* src/index.js:52-55 turns into the name null.
Firsts == {Users, Posts, Comments, Null, Str(<<"constructor">>)}

Keys == {Key(n) : n \in Firsts}

AllActions == {orderedActions[i] : i \in 1..Len(orderedActions)}

HandlerSets == {{}, {"index", "show"}, AllActions}

NoOnly == [given |-> FALSE, list |-> {}]
OnlyShow == [given |-> TRUE, list |-> {"show"}]
Onlys == {NoOnly, OnlyShow}

Api == Str(<<"/", "api">>)
Bases == {Str(<<"/", "api", "/">>)}

NoCustom == [given |-> FALSE, list |-> <<>>]
EmptyCustom == [given |-> TRUE, list |-> <<>>]
Customs == {NoCustom, EmptyCustom}

\* A loader of two declared parameters, and one of three.
Loaders == {Fn("load2"), Fn("load3")}

NoMiddlewares == [given |-> FALSE, list |-> <<>>]

Config(h, o, b, c, l) ==
    [handlers |-> h, only |-> o, base |-> b, id |-> Undefined,
     customActions |-> c, load |-> l, middlewares |-> NoMiddlewares]

\* A configuration with nothing but an empty customActions list.
Plain == Config({}, NoOnly, Undefined, EmptyCustom, Undefined)

NoOpts == [keys |-> {}, vals |-> Plain]
IdOpts == [keys |-> {"id"}, vals |-> [Plain EXCEPT !.id = Str(<<"uid">>)]]

\* Definitions that vary the default handlers, `only` and customActions.
WiringCalls ==
    {<<Users, Config(h, o, Undefined, c, Undefined), NoOpts>> :
        h \in HandlerSets, o \in Onlys, c \in Customs}

\* Definitions that vary the name, the base, the loader and the custom actions.
ShapeCalls ==
    {<<Users, [Plain EXCEPT !.base = b], NoOpts>> : b \in Bases}
    \cup {<<Null, Plain, NoOpts>>,
          <<Users, [Plain EXCEPT !.load = Fn("load2")], NoOpts>>,
          <<Users, [Plain EXCEPT !.customActions.list = << <<"get", "plow">> >>], NoOpts>>}

\* Definitions of the resources that routes are mapped on and that are nested.
RoutingCalls ==
    {<<Posts, Plain, NoOpts>>, <<Comments, Plain, NoOpts>>,
     <<Posts, [Plain EXCEPT !.base = Api], NoOpts>>,
     <<Posts, Plain, IdOpts>>}

\* Definitions of the resources that paths are built on.
PathCalls == RoutingCalls \cup {<<Comments, Plain, IdOpts>>}

\* Direct constructions: a plain configuration, and one with a loader.
ConstructCalls ==
    {<<Users, Plain>>, <<Posts, [Plain EXCEPT !.load = Fn("load2")]>>}

Verbs == {"get", "POST"}
SubPaths == {Str(<<>>), Str(<<"edit">>), Str(<<"/", "new">>)}
ActionFns == {Fn("fnA")}

----------------------------------------------------------------------------
(* The registration machine: calls on the public surface                   *)

NoCall == [op |-> "none", first |-> Null, actions |-> Plain,
           threw |-> FALSE, ret |-> NoRef, a |-> 0, b |-> 0,
           path |-> <<>>, route |-> <<>>]

\* No request is in a parameter hook.
IdleRq == [phase |-> "idle", hook |-> 0, id |-> <<>>, raw |-> Undefined, args |-> <<>>,
           attached |-> {}, status |-> 0, nexts |-> <<>>, callbacks |-> 0,
           cb |-> <<Undefined, Undefined>>]

\* No request has been dispatched.
IdleHk == [phase |-> "idle", verb |-> "", path |-> <<>>, mapped |-> <<>>,
           stack |-> 0, actionStarts |-> 0]

\* The two texts: src/index.js as it is written, and the same with the two stray
\* commas of lines 218 and 220 removed.
Sources == {"asWritten", "commasRemoved"}

Loaded == mod.status = "loaded"

Init ==
    /\ mod \in {[source |-> src, status |-> "none"] : src \in Sources}
    /\ heap = <<>>
    /\ registry = [k \in Keys |-> 0]
    /\ bindings = <<>>
    /\ params = <<>>
    /\ mapCalls = 0
    /\ defs = <<>>
    /\ last = NoCall
    /\ rq = IdleRq
    /\ hk = IdleHk

\* require of the module and its installation on the application: the text as
\* written is a SyntaxError and nothing is installed; src/index.js:37-41, 216-221
Require ==
    /\ mod.status = "none"
    /\ mod' = [mod EXCEPT !.status = IF mod.source = "asWritten" THEN "syntaxError"
                                      ELSE "loaded"]
    /\ registry' = [k \in Keys |-> 0]
    /\ UNCHANGED <<heap, bindings, params, mapCalls, defs, last, rq, hk>>

Here == World(heap, bindings, params, mapCalls)

\* Take the world a call left: an exception leaves the effects made before it.
Commit(w, keepHeap) ==
    /\ heap' = IF keepHeap THEN w.heap ELSE heap
    /\ bindings' = w.bindings
    /\ params' = w.params
    /\ mapCalls' = w.mapCalls

\* app.resource(name, actions, opts) and app.resource(actions), over a set of
\* calls; with `once`, only names that have no Resource yet are defined.
DefineOver(calls, once) ==
    \E call \in calls :
        LET out == resource(Here, registry, call[1], TRUE, call[2], call[3])
        IN /\ once => registry[Key(call[1])] = 0
           /\ out.w.threw \/ Len(heap) < MaxResources
           /\ Len(out.w.params) <= MaxParams
           /\ Commit(out.w, ~out.w.threw)
           /\ registry' = out.reg
           /\ defs' = IF out.w.threw THEN defs
                      ELSE Append(defs, [key |-> Key(call[1]), ref |-> out.ret.ref])
           /\ last' = [NoCall EXCEPT !.op = "resource", !.first = call[1],
                                     !.actions = Merge(call[2], call[3]),
                                     !.threw = out.w.threw, !.ret = out.ret]
           /\ Loaded
           /\ UNCHANGED <<mod, rq, hk>>

Define == DefineOver(WiringCalls \cup ShapeCalls, FALSE)

DefineRouted == DefineOver(RoutingCalls, TRUE)

\* app.resource(name)
Lookup ==
    \E first \in {Users, Posts, Str(<<"constructor">>)} :
        LET out == resource(Here, registry, first, FALSE, Plain, NoOpts)
        IN /\ Commit(out.w, TRUE)
           /\ registry' = out.reg
           /\ last' = [NoCall EXCEPT !.op = "lookup", !.first = first, !.ret = out.ret]
           /\ Loaded
           /\ UNCHANGED <<mod, defs, rq, hk>>

DefinePaths == DefineOver(PathCalls, TRUE)

\* How many routes the route tables of all Resources hold.
StoredRoutes == Cardinality(UNION {{<<r, route>> : route \in AllRoutes(heap[r].routes)} : r \in 1..Len(heap)})

\* res.map(httpVerb, path, action) and res.map(httpVerb, action)
MapCall ==
    \E r \in 1..Len(heap), v \in Verbs, act \in ActionFns, path \in SubPaths \cup ActionFns :
        LET w == map(Here, r, Str(<<v>>), path, act)
        IN /\ Len(bindings) < MaxBindings
           /\ StoredRoutes < MaxRoutes
           /\ Commit(w, TRUE)
           /\ last' = [NoCall EXCEPT !.op = "map", !.a = r, !.threw = w.threw]
           /\ Loaded
           /\ UNCHANGED <<mod, registry, defs, rq, hk>>

\* parent.add(child), and parent.map(child), which src/index.js:197 hands to add
AddCall ==
    \E p \in 1..Len(heap), c \in 1..Len(heap), via \in {"add", "map"} :
        LET w == IF via = "add"
                 THEN add(Here, p, c)
                 ELSE map(Here, p, ResourceArg(c), Undefined, Undefined)
        IN /\ p # c
           /\ Len(NestedBase(heap[p]).s) <= MaxBaseLen
           /\ Len(bindings) + Cardinality(AllRoutes(heap[c].routes)) <= MaxBindings
           /\ Commit(w, TRUE)
           /\ last' = [NoCall EXCEPT !.op = "add", !.a = p, !.b = c, !.threw = w.threw]
           /\ Loaded
           /\ UNCHANGED <<mod, registry, defs, rq, hk>>

\* res.prepareRoute(path)
PrepareRouteCall ==
    \E r \in 1..Len(heap), path \in SubPaths :
        /\ last' = [NoCall EXCEPT !.op = "prepareRoute", !.a = r, !.path = path.s,
                                  !.route = prepareRoute(heap[r], path.s)]
        /\ Loaded
        /\ UNCHANGED <<mod, heap, registry, bindings, params, mapCalls, defs, rq, hk>>

\* The exported function called on the application again: the registry is
\* replaced by an empty one; src/index.js:37-41
Install ==
    /\ Cardinality({i \in 1..Len(defs) : defs[i].key = <<"install">>}) < MaxInstalls
    /\ registry' = [k \in Keys |-> 0]
    /\ defs' = Append(defs, [key |-> <<"install">>, ref |-> 0])
    /\ last' = [NoCall EXCEPT !.op = "install"]
    /\ Loaded
    /\ UNCHANGED <<mod, heap, bindings, params, mapCalls, rq, hk>>

\* new Resource(name, actions, app) through the exported constructor: the object
\* gets no entry in the registry; src/index.js:71, 86-122
Construct ==
    \E call \in ConstructCalls :
        LET w == Resource(Here, call[1], call[2])
        IN /\ w.threw \/ Len(heap) < MaxResources
           /\ Len(w.params) <= MaxParams
           /\ Commit(w, ~w.threw)
           /\ last' = [NoCall EXCEPT !.op = "construct", !.first = call[1],
                                     !.actions = call[2], !.threw = w.threw,
                                     !.ret = IF w.threw THEN NoRef ELSE Ref(Len(w.heap))]
           /\ Loaded
           /\ UNCHANGED <<mod, registry, defs, rq, hk>>

\* res.load(fn)
LoadCall ==
    \E r \in 1..Len(heap), fn \in Loaders :
        /\ Len(params) < MaxParams
        /\ Commit(load(Here, r, fn), TRUE)
        /\ last' = [NoCall EXCEPT !.op = "load", !.a = r]
        /\ Loaded
        /\ UNCHANGED <<mod, registry, defs, rq, hk>>

\* The routing machine: resources are defined, routes mapped, resources nested.
Next == Require \/ DefineRouted \/ MapCall \/ AddCall

Spec == Init /\ [][Next]_vars

\* The path machine: resources are defined and nested, and paths are built.
NextPath == Require \/ DefinePaths \/ AddCall \/ PrepareRouteCall

SpecPath == Init /\ [][NextPath]_vars

\* The definition machine: resources are defined, constructed and looked up, and
\* the module is installed again.
NextDefine == Require \/ Define \/ Lookup \/ Install \/ Construct

SpecDefine == Init /\ [][NextDefine]_vars

----------------------------------------------------------------------------
(* The auto-loader's parameter hook at request time; src/index.js:137-153  *)

RawIds == {Str(<<"7">>), Str(<<"8">>)}
Errs == {Undefined, Null, Str(<<"boom">>)}
Objs == {Undefined, Null, Str(<<"entity">>)}

\* fn.length of a loader
Arity(fn) == IF fn = Fn("load2") THEN 2 ELSE 3

\* src/index.js:147-152: the hook calls the loader, with or without the request
hookInvoke(hook, raw) ==
    [IdleRq EXCEPT !.phase = "loading", !.id = hook.id, !.raw = raw,
                   !.args = IF 2 = Arity(hook.fn)
                            THEN <<"id", "callback">>
                            ELSE <<"req", "id", "callback">>]

\* callback that goes on to next() after sending the 404.
callback_NextAfter404(r, err, obj) ==
    IF Truthy(err)
    THEN [r EXCEPT !.nexts = Append(@, err)]
    ELSE IF obj.t = "undefined"
         THEN [r EXCEPT !.status = 404, !.nexts = Append(@, Undefined)]
         ELSE [r EXCEPT !.attached = {a \in @ : a.key # r.id} \cup {[key |-> r.id, value |-> obj]},
                        !.nexts = Append(@, Undefined)]

\* src/index.js:138-145: callback(err, obj)
callback(r, err, obj) ==
    IF Truthy(err)
    THEN [r EXCEPT !.nexts = Append(@, err)]
    ELSE IF obj.t = "undefined"
         THEN [r EXCEPT !.status = 404]
         ELSE [r EXCEPT !.attached = {a \in @ : a.key # r.id} \cup {[key |-> r.id, value |-> obj]},
                        !.nexts = Append(@, Undefined)]

LoadedCalls ==
    {<<Users, Plain, NoOpts>>, <<Users, [Plain EXCEPT !.load = Fn("load3")], NoOpts>>,
     <<Posts, Plain, IdOpts>>}

DefineLoaded == DefineOver(LoadedCalls, TRUE)

\* A request carrying the id parameter of a registered hook reaches the hook.
HookCall ==
    \E i \in 1..Len(params), raw \in RawIds :
        /\ rq' = [hookInvoke(params[i], raw) EXCEPT !.hook = i]
        /\ Loaded
        /\ UNCHANGED <<mod, heap, registry, bindings, params, mapCalls, defs, last, hk>>

\* The loader calls the callback it was given.
Callback ==
    \E err \in Errs, obj \in Objs :
        /\ rq.phase = "loading"
        /\ rq.callbacks < MaxCallbacks
        /\ rq' = [callback(rq, err, obj) EXCEPT !.callbacks = @ + 1, !.cb = <<err, obj>>]
        /\ Loaded
        /\ UNCHANGED <<mod, heap, registry, bindings, params, mapCalls, defs, last, hk>>

NextLoad == Require \/ DefineLoaded \/ Construct \/ LoadCall \/ HookCall \/ Callback

SpecLoad == Init /\ [][NextLoad]_vars

----------------------------------------------------------------------------
(* A request.  The host router calls the function of the first binding of  *)
(* the request's verb and route; a request no binding matches reaches no   *)
(* function of the module.  A bound closure of hookUpActionMethod runs     *)
(* src/index.js:285-301.                                                   *)

MiddlewareLists ==
    {NoMiddlewares, [given |-> TRUE, list |-> <<>>]}
    \cup {[given |-> TRUE, list |-> l] :
            l \in UNION {[1..n -> {"m1", "m2"}] : n \in 1..MaxMiddlewares}}

\* What the action does when it is called: it returns, or it throws.
ActionOutcomes == {"returned", "threw"}

\* src/index.js:285-301, one run of the closure.  With a non-empty middlewares
\* list, Promise.map is handed the list and its result is pushed; then the action
\* is called, inside the second stack.push: when it throws, that push is not
\* made and the closure throws with it.  `mapped` is the list Promise.map was
\* handed, `stack` the number of entries pushed.
hookedUp(closure, act) ==
    LET batch == closure.mws.given /\ Len(closure.mws.list) # 0
    IN [phase |-> act,
        verb |-> "",
        path |-> <<>>,
        mapped |-> IF batch THEN closure.mws.list ELSE <<>>,
        stack |-> (IF batch THEN 1 ELSE 0) + (IF act = "threw" THEN 0 ELSE 1),
        actionStarts |-> 1]

\* The bindings a request matches, by their place in the host router's list.
Matches(bs, verb, path) ==
    {i \in 1..Len(bs) : bs[i].verb = verb /\ bs[i].path = path}

\* What a request starts.  A function bound by map directly is called by the
\* wrapper of src/index.js:224-236.
dispatch(bs, verb, path, act) ==
    LET m == Matches(bs, verb, path)
    IN IF m = {}
       THEN [IdleHk EXCEPT !.phase = "unmatched"]
       ELSE LET fn == bs[CHOOSE i \in m : \A j \in m : i <= j].action
            IN IF "mws" \in DOMAIN fn
               THEN hookedUp(fn, act)
               ELSE [IdleHk EXCEPT !.phase = act, !.actionStarts = 1]

\* The routes requests are made for: the resource root of users and its bare
\* id-parameter path.
RequestPaths ==
    {<<"/", "users", ".", ":", "format", "?">>,
     <<"/", "users", "/", ":", "user", ".", ":", "format", "?">>}

\* Definitions of users that vary the handlers and the middlewares.
RequestCalls ==
    {<<Users, [Config(h, NoOnly, Undefined, EmptyCustom, Undefined) EXCEPT !.middlewares = m],
       NoOpts>> :
        h \in {{}, {"index"}, {"index", "show"}}, m \in MiddlewareLists}

DefineHooked == DefineOver(RequestCalls, FALSE)

\* A request arrives at the host router.
Request ==
    \E verb \in {"get", "post"}, path \in RequestPaths, act \in ActionOutcomes :
        /\ hk' = [dispatch(bindings, verb, path, act) EXCEPT !.verb = verb, !.path = path]
        /\ Loaded
        /\ UNCHANGED <<mod, heap, registry, bindings, params, mapCalls, defs, last, rq>>

\* The request machine: users is defined with middlewares, requests arrive.
NextRequest == Require \/ DefineHooked \/ Request

SpecRequest == Init /\ [][NextRequest]_vars

----------------------------------------------------------------------------
(* Properties                                                              *)

StartsWith(s, pre) == Len(s) >= Len(pre) /\ SubSeq(s, 1, Len(pre)) = pre

Relative(s) == s = <<>> \/ s[1] # "/"

Paths(routes) == {route.path : route \in AllRoutes(routes)}

\* base + n + "/" + idParam [+ "/" + s] + ".:format?"
ExpectedPath(self, s) ==
    IF s # <<>>
    THEN ToStr(self.base) \o self.name.s \o <<"/">> \o (<<":">> \o self.id) \o <<"/">>
         \o s \o <<".", ":", "format", "?">>
    ELSE ToStr(self.base) \o self.name.s \o <<"/">> \o (<<":">> \o self.id)
         \o <<".", ":", "format", "?">>

\* C1: for every resource with a non-empty name and every sub-path that does not
\* start with "/", prepareRoute yields base + name + "/" + ":"id + "/" + sub-path +
\* ".:format?" (without the "/" + sub-path when the sub-path is empty).
C1_PathBuilding ==
    /\ \A r \in 1..Len(heap) :
         Truthy(heap[r].name) =>
            \A s \in SubPaths :
                Relative(s.s) => prepareRoute(heap[r], s.s) = ExpectedPath(heap[r], s.s)
    /\ (last.op = "prepareRoute" /\ Truthy(heap[last.a].name) /\ Relative(last.path))
         => last.route = ExpectedPath(heap[last.a], last.path)

\* prepareRoute("edit") on comments nested under posts:
\* /posts/:post/comments/:comment/edit.:format?
C1_Witness ==
    /\ last.op = "prepareRoute"
    /\ last.path = <<"edit">>
    /\ last.route = <<"/", "posts", "/", ":", "post", "/", "comments", "/", ":", "comment", "/",
                      "edit", ".", ":", "format", "?">>

IndexShow == Config({"index", "show"}, NoOnly, Undefined, NoCustom, Undefined)

\* C2: resource("users", { index: fnA, show: fnB }) on a fresh application
\* registers exactly two routes with the host router, GET /users.:format? to fnA
\* and GET /:user.:format? to fnB.
C2_TwoRoutes ==
    [][(/\ last'.op = "resource" /\ last'.first = Users /\ last'.actions = IndexShow
        /\ heap = <<>> /\ bindings = <<>>)
       => bindings' = << [verb |-> "get",
                          path |-> <<"/", "users", ".", ":", "format", "?">>,
                          action |-> hookUpActionMethod(Fn("fnA"), IndexShow)],
                         [verb |-> "get",
                          path |-> <<"/", ":", "user", ".", ":", "format", "?">>,
                          action |-> hookUpActionMethod(Fn("fnB"), IndexShow)] >>]_vars

\* The default actions a configuration has a handler for and `only` lets through.
WiredActions(actions) ==
    {a \in actions.handlers : ~actions.only.given \/ a \in actions.only.list}

CanonicalVerb(a) ==
    CASE a \in {"index", "new", "show", "edit"} -> "get"
      [] a = "create" -> "post"
      [] a = "update" -> "put"
      [] a = "patch" -> "patch"
      [] OTHER -> "delete"

\* The path class the claim gives each default action, for the resource users
\* with base "/" and id-parameter :user.
ClaimedPath(a) ==
    CASE a \in {"index", "create"} -> <<"/", "users", ".", ":", "format", "?">>
      [] a \in {"new", "edit"} -> <<"/", "users", "/", ":", "user", "/", a, ".", ":", "format", "?">>
      [] OTHER -> <<"/", "users", "/", ":", "user", ".", ":", "format", "?">>

\* C3: a resource definition registers index and create at the resource root, show,
\* update, patch and destroy at the bare id-parameter path, and new and edit at
\* the id-parameter-prefixed sub-paths /new and /edit, each with its canonical verb.
C3_PathClasses ==
    [][(last'.op = "resource" /\ last'.first = Users /\ last'.actions.base = Undefined)
       => \A a \in WiredActions(last'.actions) :
            \E i \in 1..Len(bindings') :
                /\ bindings'[i].verb = CanonicalVerb(a)
                /\ bindings'[i].path = ClaimedPath(a)]_vars

\* C4: the constructor wires exactly the default actions that have a handler and
\* that `only`, when given, lists; each of them produces exactly one route.
C4_OnlyRestriction ==
    [][last'.op = "resource"
       => /\ Len(bindings') - Len(bindings) = Cardinality(WiredActions(last'.actions))
          /\ \A a \in WiredActions(last'.actions) :
                Cardinality({i \in (Len(bindings) + 1)..Len(bindings') :
                                bindings'[i].action = hookUpActionMethod(Handler(a), last'.actions)}) = 1]_vars

PostsBase == <<"/", "posts", "/", ":", "post", "/">>

\* parent.add(child) ran with parent posts (base "/") and child comments.
NestedUnderPosts ==
    /\ last'.op = "add"
    /\ heap[last'.a].name = Posts
    /\ heap[last'.a].base = Str(<<"/">>)
    /\ heap[last'.b].name = Comments

\* C5 as stated: after parent.add(child) the child's base is /posts/:post/, every
\* path of the child's route table starts with it, and no entry keyed by a
\* pre-nesting path remains.
C5_Original ==
    [][NestedUnderPosts
       => /\ heap'[last'.b].base = Str(PostsBase)
          /\ \A path \in Paths(heap'[last'.b].routes) : StartsWith(path, PostsBase)
          /\ Paths(heap'[last'.b].routes) \cap Paths(heap[last'.b].routes) = {}]_vars

\* "/posts/" + the parent's id-parameter + "/"
ParentBase(p) == <<"/", "posts", "/", ":">> \o heap[p].id \o <<"/">>

\* C5 as amended: after parent.add(child) the child's base is "/posts/" + the
\* parent's id-parameter + "/" (/posts/:post/ unless the parent was defined with
\* an id override) and every path of the child's route table starts with it; no
\* entry keyed by a pre-nesting path remains unless the child's base had that
\* value already, and then the table has the paths it had.
C5_Nesting ==
    [][NestedUnderPosts
       => LET c == last'.b
              b == ParentBase(last'.a)
          IN /\ heap'[c].base = Str(b)
             /\ heap'[last'.a].id = <<"post">> => b = PostsBase
             /\ \A path \in Paths(heap'[c].routes) : StartsWith(path, b)
             /\ Cardinality(Paths(heap'[c].routes)) = Cardinality(Paths(heap[c].routes))
             /\ IF heap[c].base = Str(b)
                THEN Paths(heap'[c].routes) = Paths(heap[c].routes)
                ELSE Paths(heap'[c].routes) \cap Paths(heap[c].routes) = {}]_vars

\* comments, holding a GET and a POST route, was just nested under posts:
\* /posts/:post/comments/:comment/edit.:format? and the pre-nesting path of it
\* is still bound.
C5_Witness ==
    /\ last.op = "add"
    /\ heap[last.a].name = Posts
    /\ heap[last.b].base = Str(PostsBase)
    /\ Cardinality({i \in 1..Len(heap[last.b].routes) : heap[last.b].routes[i].entries # <<>>}) = 2
    /\ <<"/", "posts", "/", ":", "post", "/", "comments", "/", ":", "comment", "/", "edit",
         ".", ":", "format", "?">> \in Paths(heap[last.b].routes)
    /\ \E i \in 1..Len(bindings) :
         bindings[i].path = <<"/", "comments", "/", ":", "comment", "/", "edit", ".", ":", "format", "?">>

\* C6: each invocation of the loader callback does exactly one of: forward the
\* error to next(err) and attach nothing; send 404 without calling next (so the
\* route handler is not reached); attach the entity under the bare id-parameter
\* name and call next() with no error.
C6_LoaderCallback ==
    [][rq'.callbacks = rq.callbacks + 1
       => LET err == rq'.cb[1]
              obj == rq'.cb[2]
          IN CASE err.t \in {"string", "function"} /\ err.s # <<>> ->
                    /\ rq'.nexts = rq.nexts \o <<err>>
                    /\ rq'.attached = rq.attached
                    /\ rq'.status = rq.status
               [] ~(err.t \in {"string", "function"} /\ err.s # <<>>) /\ obj.t = "undefined" ->
                    /\ rq'.status = 404
                    /\ rq'.nexts = rq.nexts
                    /\ rq'.attached = rq.attached
               [] OTHER ->
                    /\ \E r \in 1..Len(heap) :
                         /\ heap[r].id = params[rq.hook].id
                         /\ rq'.attached = {a \in rq.attached : a.key # heap[r].id}
                                             \cup {[key |-> heap[r].id, value |-> obj]}
                         /\ [key |-> heap[r].id, value |-> obj] \in rq'.attached
                         /\ heap[r].param = <<":">> \o heap[r].id
                    /\ rq'.nexts = rq.nexts \o <<Undefined>>
                    /\ rq'.status = rq.status]_vars

\* The callback was called with (undefined, undefined): 404 sent, next not called.
C6_Witness ==
    /\ rq.callbacks = 1
    /\ rq.cb = <<Undefined, Undefined>>
    /\ rq.status = 404
    /\ rq.nexts = <<>>

\* The positions in defs, after position `from`, of the definitions under a name.
DefinedSince(first, from) ==
    {i \in (from + 1)..Len(defs) : defs[i].key = Key(first)}

\* The Resource the last of a non-empty set of positions defined.
MostRecent(positions) ==
    Ref(defs[CHOOSE i \in positions : \A j \in positions : j <= i].ref)

\* C7: resource(name) without actions registers no route and changes neither the
\* registry nor any Resource; it returns the Resource most recently defined under
\* the name, or an inert Resource when none was.
C7_Original ==
    [][last'.op = "lookup"
       => /\ bindings' = bindings /\ params' = params
          /\ registry' = registry /\ heap' = heap
          /\ IF DefinedSince(last'.first, 0) # {}
             THEN last'.ret = MostRecent(DefinedSince(last'.first, 0))
             ELSE last'.ret = Inert]_vars

\* C8: every Resource's base is a string that ends with exactly one "/", and it is
\* "/" when no base was specified and the Resource was not nested.
C8_BaseInvariant ==
    \A r \in 1..Len(heap) :
        LET b == heap[r].base
        IN /\ b.t = "string"
           /\ Len(b.s) >= 1 /\ b.s[Len(b.s)] = "/"
           /\ Len(b.s) >= 2 => b.s[Len(b.s) - 1] # "/"
           /\ (heap[r].baseArg = Undefined /\ ~heap[r].nested) => b = Str(<<"/">>)

\* C9: the host router's bindings only grow, by exactly one entry per map call
\* (those add makes included): a map call adds one binding even at a path already
\* bound, and add adds one per route of the nested resource and leaves the
\* bindings of the pre-nesting paths in place.
C9_AppendOnly ==
    [][/\ Len(bindings') >= Len(bindings)
       /\ SubSeq(bindings', 1, Len(bindings)) = bindings
       /\ Len(bindings') - Len(bindings) = mapCalls' - mapCalls
       /\ last'.op = "map" => Len(bindings') = Len(bindings) + 1
       /\ last'.op = "add" =>
            /\ Len(bindings') = Len(bindings) + Cardinality(AllRoutes(heap[last'.b].routes))
            /\ \A path \in Paths(heap[last'.b].routes) :
                 \E i \in 1..Len(bindings) : bindings'[i].path = path]_vars

\* The same verb and sub-path were mapped twice: two bindings at one path.
C9_Witness ==
    \E i, j \in 1..Len(bindings) :
        /\ i < j
        /\ bindings[i].verb = bindings[j].verb
        /\ bindings[i].path = bindings[j].path
        /\ mapCalls = 2

\* C10: after the definition of users with a handler for index and a non-empty
\* middlewares list, a request for the index route hands every middleware to
\* Promise.map, which starts them, and starts the action exactly once.
C10_NoSequencing ==
    [][(/\ hk' # hk
        /\ last.op = "resource" /\ last.first = Users
        /\ "index" \in WiredActions(last.actions)
        /\ last.actions.middlewares.given /\ last.actions.middlewares.list # <<>>
        /\ hk'.verb = "get" /\ hk'.path = ClaimedPath("index"))
       => /\ hk'.mapped = last.actions.middlewares.list
          /\ hk'.actionStarts = 1]_vars

====
